---- MODULE Spec2Model ----
(***************************************************************************)
(* Model of crust's MappingTcpSocket (src/nat/mapped_tcp_socket/mod.rs):   *)
(* the state that maps a TCP socket by asking the IGD gateways of the      *)
(* local interfaces (one thread each) and the peer STUN listeners (one     *)
(* GetExtAddr child state each), bounded by one timer, and that hands the  *)
(* bound socket and the collected addresses to `finish`.                   *)
(*                                                                         *)
(* start() runs on the event-loop thread; it is modelled in steps because  *)
(* the IGD threads it spawns run concurrently with the rest of it.  The    *)
(* event loop dispatches nothing (CoreMessage, child result, timer,        *)
(* terminate) until start() has returned.                                  *)
(***************************************************************************)
EXTENDS Integers, Sequences, FiniteSets, TLC

\* ---------------------------------------------------------------- bounds
MaxIf == 2
MaxPeers == 2
\* Gateway threads plus STUN peers of one configuration.
MaxChildren == 3

\* ------------------------------------------------------------- constants
\* igd_children is a usize; the model keeps a narrow word so that TLC can hold it.
UsizeBits == 16
UsizeMod == 2 ^ UsizeBits

\* The ports start() may be asked for (0 = any), and the port the OS then picks.
RequestedPorts == {0, 5000}
EphemeralPorts == {40000}
\* The external address the gateway of interface k maps (ip 100 + k), the one
\* the STUN peers see, and the external port of both.
GatewayIpBase == {100}
StunIps == {200}
ExtPorts == {6000}

VARIABLES
    pc,              \* where start() is: idle, igd, timer, stun, register, returned
    result,          \* what start() returned: none, Ok, Err
    err,             \* which try! made start() return Err
    ifv4s,           \* mc.ifv4s(): sequence of [ip, gateway]
    peer_listeners,  \* mc.peer_listeners(): the peers are 1..peer_listeners
    addr_port,       \* addr.port() of the bound socket
    nextIf,          \* position of the IGD loop
    nextPeer,        \* position of the STUN loop
    socket,          \* self.socket is Some
    finish,          \* self.finish is Some
    igd_children,
    stun_children,
    mapped_addrs,
    timer,           \* the event loop's timer: none, armed, fired, cleared
    hasContext,      \* core holds token -> context
    hasState,        \* core holds context -> state
    worker,          \* the IGD thread of each interface
    igdMsg,          \* the external address carried by each thread's CoreMessage
    child,           \* the GetExtAddr child of each peer
    childReg,        \* the children core holds a state for
    signalled,       \* the children terminate_children called terminate on
    finishCalls,     \* how many times finish was called
    finishArgs,      \* the mapped_addrs handed to finish, one per call
    finishView,      \* what finish could see of the coordinator, one per call
    panicked,        \* a handler panicked
    stunRes,         \* the result each child's handler passed to handle_stun_resp
    igdLive,         \* the threads whose CoreMessage ran on a registered coordinator
    stunLive         \* the children whose result reached a registered coordinator

startVars == <<pc, result, err, ifv4s, peer_listeners, addr_port, nextIf, nextPeer>>
selfVars == <<socket, finish, igd_children, stun_children, mapped_addrs>>
coreVars == <<timer, hasContext, hasState, childReg, signalled>>
outVars == <<finishCalls, finishArgs, finishView, panicked>>
histVars == <<stunRes, igdLive, stunLive>>
vars == <<startVars, selfVars, coreVars, outVars, histVars, worker, igdMsg, child>>

\* ------------------------------------------------------------ data types
SocketAddr(ip, port) == [ip |-> ip, port |-> port]
MappedAddr(addr, via_reflection) == [addr |-> addr, via_reflection |-> via_reflection]
GatewayAddrs(k) == {SocketAddr(b + k, port) : b \in GatewayIpBase, port \in ExtPorts}
StunAddrs == {SocketAddr(ip, port) : ip \in StunIps, port \in ExtPorts}

Interfaces == 1..MaxIf
Peers == 1..MaxPeers

\* mc.ifv4s(): interface k has ip k and may carry a gateway.
IfConfigs ==
    UNION {[1..n -> [ip : Interfaces, gateway : BOOLEAN]] : n \in 0..MaxIf}
ValidIfs(ifs) == \A k \in 1..Len(ifs) : ifs[k].ip = k
Gateways(ifs) == {k \in 1..Len(ifs) : ifs[k].gateway}

\* The part of the state the handlers read and write, as one value.
Cur ==
    [socket |-> socket, finish |-> finish, igd_children |-> igd_children,
     stun_children |-> stun_children, mapped_addrs |-> mapped_addrs,
     timer |-> timer, hasContext |-> hasContext, hasState |-> hasState,
     childReg |-> childReg, signalled |-> signalled,
     finishCalls |-> finishCalls, finishArgs |-> finishArgs,
     finishView |-> finishView, panicked |-> panicked]

Commit(s) ==
    /\ socket' = s.socket
    /\ finish' = s.finish
    /\ igd_children' = s.igd_children
    /\ stun_children' = s.stun_children
    /\ mapped_addrs' = s.mapped_addrs
    /\ timer' = s.timer
    /\ hasContext' = s.hasContext
    /\ hasState' = s.hasState
    /\ childReg' = s.childReg
    /\ signalled' = s.signalled
    /\ finishCalls' = s.finishCalls
    /\ finishArgs' = s.finishArgs
    /\ finishView' = s.finishView
    /\ panicked' = s.panicked

\* ------------------------------------------------------------- handlers
\* What the continuation finds when it is called: the registry, the timer and
\* the fields of the coordinator at that moment.
View(s) ==
    [hasContext |-> s.hasContext, hasState |-> s.hasState, timer |-> s.timer,
     socket |-> s.socket, stun_children |-> s.stun_children,
     mapped_addrs |-> s.mapped_addrs, signalled |-> s.signalled]

\* Each handler is a function of the state it runs in; an action commits
\* what the whole handler leaves behind.

\* The decrement written as an increment.
UsizeInc(n) == (n + 1) % UsizeMod

\* self.igd_children -= 1 on a usize: with overflow checks the subtraction
\* panics at zero, without them it wraps.
UsizeDec(n) == (n + UsizeMod - 1) % UsizeMod

\* GetExtAddr::terminate, called by terminate_children: the child leaves the
\* registry and is told to stop.
ChildTerminate(s, c) ==
    [s EXCEPT !.childReg = @ \ {c}, !.signalled = @ \cup {c}]

RECURSIVE TerminateEach(_, _)
TerminateEach(s, cs) ==
    IF cs = {} THEN s
    ELSE LET c == CHOOSE x \in cs : TRUE
         IN TerminateEach(IF c \in s.childReg THEN ChildTerminate(s, c) ELSE s,
                          cs \ {c})

\* terminate_children that drains the set and stops no child.
terminate_children_drainOnly(s) ==
    [s EXCEPT !.stun_children = {}]

\* for context in self.stun_children.drain() { get_state, terminate }
terminate_children(s) ==
    TerminateEach([s EXCEPT !.stun_children = {}], s.stun_children)

\* event_loop.clear_timeout(&self.timeout): cancels a timer that is still set.
clear_timeout(s) ==
    [s EXCEPT !.timer = IF @ = "armed" THEN "cleared" ELSE @]

\* terminate that takes finish and drops it uncalled.
terminate_dropsFinish(s) ==
    LET s1 == terminate_children(s)
        s2 == [s1 EXCEPT !.hasContext = FALSE, !.hasState = FALSE]
        s3 == clear_timeout(s2)
    IN  IF ~s3.socket THEN [s3 EXCEPT !.panicked = TRUE]
        ELSE LET s4 == [s3 EXCEPT !.socket = FALSE, !.mapped_addrs = <<>>]
             IN  IF ~s4.finish THEN [s4 EXCEPT !.panicked = TRUE]
                 ELSE [s4 EXCEPT !.finish = FALSE]

\* terminate without remove_context and remove_state.
terminate_staysRegistered(s) ==
    LET s1 == terminate_children(s)
        s3 == clear_timeout(s1)
    IN  IF ~s3.socket THEN [s3 EXCEPT !.panicked = TRUE]
        ELSE LET s4 == [s3 EXCEPT !.socket = FALSE, !.mapped_addrs = <<>>]
             IN  IF ~s4.finish THEN [s4 EXCEPT !.panicked = TRUE]
                 ELSE [s4 EXCEPT !.finish = FALSE,
                                 !.finishCalls = @ + 1,
                                 !.finishArgs = Append(@, s3.mapped_addrs),
                                 !.finishView = Append(@, View(s4))]

\* terminate with remove_context but without remove_state.
terminate_keepsState(s) ==
    LET s1 == terminate_children(s)
        s2 == [s1 EXCEPT !.hasContext = FALSE]
        s3 == clear_timeout(s2)
    IN  IF ~s3.socket THEN [s3 EXCEPT !.panicked = TRUE]
        ELSE LET s4 == [s3 EXCEPT !.socket = FALSE, !.mapped_addrs = <<>>]
             IN  IF ~s4.finish THEN [s4 EXCEPT !.panicked = TRUE]
                 ELSE [s4 EXCEPT !.finish = FALSE,
                                 !.finishCalls = @ + 1,
                                 !.finishArgs = Append(@, s3.mapped_addrs),
                                 !.finishView = Append(@, View(s4))]

\* terminate that calls finish before it deregisters and clears the timer.
terminate_finishFirst(s) ==
    LET s1 == terminate_children(s)
    IN  IF ~s1.socket THEN [s1 EXCEPT !.panicked = TRUE]
        ELSE LET s2 == [s1 EXCEPT !.socket = FALSE, !.mapped_addrs = <<>>]
             IN  IF ~s2.finish THEN [s2 EXCEPT !.panicked = TRUE]
                 ELSE LET s3 == [s2 EXCEPT !.finish = FALSE,
                                           !.finishCalls = @ + 1,
                                           !.finishArgs = Append(@, s1.mapped_addrs),
                                           !.finishView = Append(@, View(s2))]
                      IN  clear_timeout([s3 EXCEPT !.hasContext = FALSE,
                                                   !.hasState = FALSE])

\* State::terminate
terminate(s) ==
    LET s1 == terminate_children(s)
        s2 == [s1 EXCEPT !.hasContext = FALSE, !.hasState = FALSE]
        s3 == clear_timeout(s2)
    IN  IF ~s3.socket THEN [s3 EXCEPT !.panicked = TRUE]
        ELSE LET s4 == [s3 EXCEPT !.socket = FALSE, !.mapped_addrs = <<>>]
             IN  IF ~s4.finish THEN [s4 EXCEPT !.panicked = TRUE]
                 ELSE [s4 EXCEPT !.finish = FALSE,
                                 !.finishCalls = @ + 1,
                                 !.finishArgs = Append(@, s3.mapped_addrs),
                                 !.finishView = Append(@, View(s4))]

\* timeout that terminates only when nothing is outstanding.
timeout_onlyWhenIdle(s) ==
    IF s.stun_children = {} /\ s.igd_children = 0 THEN terminate(s) ELSE s

\* State::timeout
timeout(s) == terminate(s)

\* handle_stun_resp that leaves the zero check to handle_igd_resp.
handle_stun_resp_noZeroCheck(s, c, res) ==
    LET s1 == [s EXCEPT !.stun_children = @ \ {c}]
    IN  IF res.ok
        THEN [s1 EXCEPT !.mapped_addrs = Append(@, MappedAddr(res.addr, TRUE))]
        ELSE s1

\* handle_stun_resp that pushes whatever the result holds, Ok or Err.
handle_stun_resp_pushesFailure(s, c, res) ==
    LET s1 == [s EXCEPT !.stun_children = @ \ {c}]
        s2 == [s1 EXCEPT !.mapped_addrs = Append(@, MappedAddr(res.addr, TRUE))]
    IN  IF s2.stun_children = {} /\ s2.igd_children = 0
        THEN terminate(s2)
        ELSE s2

\* handle_stun_resp that removes the child only after the zero check.
handle_stun_resp_removesLate(s, c, res) ==
    LET s1 == IF res.ok
              THEN [s EXCEPT !.mapped_addrs = Append(@, MappedAddr(res.addr, TRUE))]
              ELSE s
        s2 == IF s1.stun_children \ {c} = {} /\ s1.igd_children = 0
              THEN terminate(s1)
              ELSE s1
    IN  [s2 EXCEPT !.stun_children = @ \ {c}]

\* handle_stun_resp that records a reflected address as not reflected.
handle_stun_resp_notReflected(s, c, res) ==
    LET s1 == [s EXCEPT !.stun_children = @ \ {c}]
        s2 == IF res.ok
              THEN [s1 EXCEPT !.mapped_addrs = Append(@, MappedAddr(res.addr, FALSE))]
              ELSE s1
    IN  IF s2.stun_children = {} /\ s2.igd_children = 0
        THEN terminate(s2)
        ELSE s2

handle_stun_resp(s, c, res) ==
    LET s1 == [s EXCEPT !.stun_children = @ \ {c}]
        s2 == IF res.ok
              THEN [s1 EXCEPT !.mapped_addrs = Append(@, MappedAddr(res.addr, TRUE))]
              ELSE s1
    IN  IF s2.stun_children = {} /\ s2.igd_children = 0
        THEN terminate(s2)
        ELSE s2

\* handle_igd_resp that terminates at igd_children == 0 without looking at
\* stun_children.
handle_igd_resp_ignoresStun(s, our_ext_addr, overflow_checks) ==
    IF s.igd_children = 0 /\ overflow_checks
    THEN [s EXCEPT !.panicked = TRUE]
    ELSE LET s1 == [s EXCEPT !.igd_children = UsizeDec(@)]
             s2 == [s1 EXCEPT !.mapped_addrs = Append(@, MappedAddr(our_ext_addr, FALSE))]
         IN  IF s2.igd_children = 0
             THEN terminate(s2)
             ELSE s2

\* handle_igd_resp without the push.
handle_igd_resp_noPush(s, our_ext_addr, overflow_checks) ==
    IF s.igd_children = 0 /\ overflow_checks
    THEN [s EXCEPT !.panicked = TRUE]
    ELSE LET s2 == [s EXCEPT !.igd_children = UsizeDec(@)]
         IN  IF s2.stun_children = {} /\ s2.igd_children = 0
             THEN terminate(s2)
             ELSE s2

handle_igd_resp(s, our_ext_addr, overflow_checks) ==
    IF s.igd_children = 0 /\ overflow_checks
    THEN [s EXCEPT !.panicked = TRUE]
    ELSE LET s1 == [s EXCEPT !.igd_children = UsizeDec(@)]
             s2 == [s1 EXCEPT !.mapped_addrs = Append(@, MappedAddr(our_ext_addr, FALSE))]
         IN  IF s2.stun_children = {} /\ s2.igd_children = 0
             THEN terminate(s2)
             ELSE s2

\* The CoreMessage without the lookup: it runs the handler on whatever it kept.
IgdMessage_noLookup(s, ext_addr, overflow_checks) ==
    handle_igd_resp(s, ext_addr, overflow_checks)

\* The CoreMessage an IGD thread sends: look the state up by context, return
\* if it is gone.
IgdMessage(s, ext_addr, overflow_checks) ==
    IF ~s.hasState THEN s
    ELSE handle_igd_resp(s, ext_addr, overflow_checks)

\* The handler start() gives each child: self_weak.upgrade().  Once start()
\* has returned, core's registry holds the only strong reference.
StunHandler(s, c, res) ==
    IF ~s.hasState THEN s
    ELSE handle_stun_resp(s, c, res)

\* Core's dispatch of a timer event: token -> context -> state, then
\* State::timeout; nothing when either lookup finds nothing.
CoreTimeout(s) ==
    LET s1 == [s EXCEPT !.timer = "fired"]
    IN  IF s1.hasContext /\ s1.hasState THEN timeout(s1) ELSE s1

Init ==
    /\ pc = "idle"
    /\ result = "none"
    /\ err = "none"
    /\ ifv4s = <<>>
    /\ peer_listeners = 0
    /\ addr_port = 0
    /\ nextIf = 1
    /\ nextPeer = 1
    /\ socket = FALSE
    /\ finish = FALSE
    /\ igd_children = 0
    /\ stun_children = {}
    /\ mapped_addrs = <<>>
    /\ timer = "none"
    /\ hasContext = FALSE
    /\ hasState = FALSE
    /\ worker = [i \in Interfaces |-> "none"]
    /\ igdMsg = [i \in Interfaces |-> SocketAddr(0, 0)]
    /\ child = [p \in Peers |-> "pending"]
    /\ childReg = {}
    /\ signalled = {}
    /\ finishCalls = 0
    /\ finishArgs = <<>>
    /\ finishView = <<>>
    /\ panicked = FALSE
    /\ stunRes = [p \in Peers |-> [ok |-> FALSE, addr |-> SocketAddr(0, 0)]]
    /\ igdLive = {}
    /\ stunLive = {}

\* ---------------------------------------------------------------- start()
\* start() returning Err: whatever it built is dropped; finish is dropped
\* uncalled.
ReturnErr(e) ==
    /\ pc' = "returned"
    /\ result' = "Err"
    /\ err' = e
    /\ socket' = FALSE
    /\ finish' = FALSE

BoundPorts(port) == IF port = 0 THEN EphemeralPorts ELSE {port}

\* let socket = try!(new_reusably_bound_tcp_socket(&addr));
\* let addr = try!(tcp_builder_local_addr(&socket));
StartBind ==
    /\ ~panicked
    /\ UNCHANGED histVars
    /\ pc = "idle"
    /\ \E port \in RequestedPorts, ifs \in IfConfigs, peers \in 0..MaxPeers :
          /\ ValidIfs(ifs)
          /\ Cardinality(Gateways(ifs)) + peers <= MaxChildren
          /\ ifv4s' = ifs
          /\ peer_listeners' = peers
          /\ \/ /\ \E e \in {"bind", "local_addr"} : ReturnErr(e)
                /\ UNCHANGED addr_port
             \/ /\ \E p \in BoundPorts(port) : addr_port' = p
                /\ pc' = "igd"
                /\ UNCHANGED <<result, err, socket, finish>>
    /\ UNCHANGED <<nextIf, nextPeer, igd_children, stun_children, mapped_addrs,
                   coreVars, outVars, worker, igdMsg, child>>

\* The IGD loop counting every interface, gateway or not.
StartIgd_countsAll ==
    /\ ~panicked
    /\ UNCHANGED histVars
    /\ pc = "igd"
    /\ nextIf <= Len(ifv4s)
    /\ IF ifv4s[nextIf].gateway
       THEN worker' = [worker EXCEPT ![nextIf] = "spawned"]
       ELSE UNCHANGED worker
    /\ igd_children' = igd_children + 1
    /\ nextIf' = nextIf + 1
    /\ UNCHANGED <<pc, result, err, ifv4s, peer_listeners, addr_port, nextPeer,
                   socket, finish, stun_children, mapped_addrs,
                   coreVars, outVars, igdMsg, child>>

\* The IGD loop without igd_children += 1.
StartIgd_noCount ==
    /\ ~panicked
    /\ UNCHANGED histVars
    /\ pc = "igd"
    /\ nextIf <= Len(ifv4s)
    /\ IF ifv4s[nextIf].gateway
       THEN worker' = [worker EXCEPT ![nextIf] = "spawned"]
       ELSE UNCHANGED worker
    /\ nextIf' = nextIf + 1
    /\ UNCHANGED <<pc, result, err, ifv4s, peer_listeners, addr_port, nextPeer,
                   socket, finish, igd_children, stun_children, mapped_addrs,
                   coreVars, outVars, igdMsg, child>>

\* One turn of the IGD loop: no gateway, continue; else spawn the thread and
\* count it.
StartIgd ==
    /\ ~panicked
    /\ UNCHANGED histVars
    /\ pc = "igd"
    /\ nextIf <= Len(ifv4s)
    /\ IF ifv4s[nextIf].gateway
       THEN /\ worker' = [worker EXCEPT ![nextIf] = "spawned"]
            /\ igd_children' = igd_children + 1
       ELSE UNCHANGED <<worker, igd_children>>
    /\ nextIf' = nextIf + 1
    /\ UNCHANGED <<pc, result, err, ifv4s, peer_listeners, addr_port, nextPeer,
                   socket, finish, stun_children, mapped_addrs,
                   coreVars, outVars, igdMsg, child>>

\* Seeding only the interfaces that carry a gateway.
RECURSIVE GatewaySeeds(_)
GatewaySeeds(k) ==
    IF k = 0 THEN <<>>
    ELSE IF ifv4s[k].gateway
         THEN Append(GatewaySeeds(k - 1),
                     MappedAddr(SocketAddr(ifv4s[k].ip, addr_port), FALSE))
         ELSE GatewaySeeds(k - 1)

SeedAddrs_gatewayOnly == GatewaySeeds(Len(ifv4s))

\* mapped_addrs: one entry per interface, then the state with its timer.
SeedAddrs ==
    [k \in 1..Len(ifv4s) |-> MappedAddr(SocketAddr(ifv4s[k].ip, addr_port), FALSE)]

StartState ==
    /\ ~panicked
    /\ UNCHANGED histVars
    /\ pc = "igd"
    /\ nextIf > Len(ifv4s)
    /\ \/ /\ ReturnErr("timer")
          /\ UNCHANGED <<mapped_addrs, timer>>
       \/ /\ mapped_addrs' = SeedAddrs
          /\ socket' = TRUE
          /\ finish' = TRUE
          /\ timer' = "armed"
          /\ pc' = "stun"
          /\ UNCHANGED <<result, err>>
    /\ UNCHANGED <<ifv4s, peer_listeners, addr_port, nextIf, nextPeer,
                   igd_children, stun_children, hasContext, hasState, childReg,
                   signalled, outVars, worker, igdMsg, child>>

\* One turn of the STUN loop.  The three try! return Err from start(); only a
\* failing GetExtAddr::start is skipped.
StartStun ==
    /\ ~panicked
    /\ UNCHANGED histVars
    /\ pc = "stun"
    /\ nextPeer <= peer_listeners
    /\ \/ /\ \E e \in {"query_bind", "to_tcp_stream", "connect"} :
                /\ ReturnErr(e)
                /\ child' = [child EXCEPT ![nextPeer] = e]
          /\ UNCHANGED <<nextPeer, stun_children, childReg>>
       \/ /\ child' = [child EXCEPT ![nextPeer] = "start_failed"]
          /\ nextPeer' = nextPeer + 1
          /\ UNCHANGED <<pc, result, err, socket, finish, stun_children, childReg>>
       \/ /\ child' = [child EXCEPT ![nextPeer] = "running"]
          /\ childReg' = childReg \cup {nextPeer}
          /\ stun_children' = stun_children \cup {nextPeer}
          /\ nextPeer' = nextPeer + 1
          /\ UNCHANGED <<pc, result, err, socket, finish>>
    /\ UNCHANGED <<ifv4s, peer_listeners, addr_port, nextIf, igd_children,
                   mapped_addrs, timer, hasContext, hasState, signalled,
                   outVars, worker, igdMsg>>

\* core.insert_context(token, context); core.insert_state(context, state); Ok(())
StartRegister ==
    /\ ~panicked
    /\ UNCHANGED histVars
    /\ pc = "stun"
    /\ nextPeer > peer_listeners
    /\ hasContext' = TRUE
    /\ hasState' = TRUE
    /\ pc' = "returned"
    /\ result' = "Ok"
    /\ UNCHANGED <<err, ifv4s, peer_listeners, addr_port, nextIf, nextPeer,
                   selfVars, timer, childReg, signalled, outVars, worker,
                   igdMsg, child>>

\* ------------------------------------------------------------ IGD threads
\* gateway.get_any_address(..) returned Ok: the thread sends its CoreMessage.
WorkerSend(i) ==
    /\ ~panicked
    /\ UNCHANGED histVars
    /\ worker[i] = "spawned"
    /\ \E a \in GatewayAddrs(ifv4s[i].ip) : igdMsg' = [igdMsg EXCEPT ![i] = a]
    /\ worker' = [worker EXCEPT ![i] = "sent"]
    /\ UNCHANGED <<startVars, selfVars, coreVars, outVars, child>>

\* gateway.get_any_address(..) returned Err: the thread returns.
WorkerFail(i) ==
    /\ ~panicked
    /\ UNCHANGED histVars
    /\ worker[i] = "spawned"
    /\ worker' = [worker EXCEPT ![i] = "failed"]
    /\ UNCHANGED <<startVars, selfVars, coreVars, outVars, igdMsg, child>>

\* ------------------------------------------------------------- event loop
\* The event loop runs the CoreMessage of thread i.
DeliverIgd(i) ==
    /\ ~panicked
    /\ pc = "returned"
    /\ worker[i] = "sent"
    /\ worker' = [worker EXCEPT ![i] = "delivered"]
    /\ \E overflow_checks \in BOOLEAN :
          Commit(IgdMessage(Cur, igdMsg[i], overflow_checks))
    /\ igdLive' = IF hasState THEN igdLive \cup {i} ELSE igdLive
    /\ UNCHANGED <<startVars, igdMsg, child, stunRes, stunLive>>

\* Child c completes: it calls the handler once and leaves the registry,
\* before the call or after it.
StunResults == {[ok |-> FALSE, addr |-> SocketAddr(0, 0)]}
                   \cup {[ok |-> TRUE, addr |-> a] : a \in StunAddrs}

StunReport(c) ==
    /\ ~panicked
    /\ pc = "returned"
    /\ child[c] = "running"
    /\ child' = [child EXCEPT ![c] = "reported"]
    /\ \E res \in StunResults, leftFirst \in BOOLEAN :
          /\ stunRes' = IF hasState THEN [stunRes EXCEPT ![c] = res] ELSE stunRes
          /\ LET s0 == IF leftFirst THEN [Cur EXCEPT !.childReg = @ \ {c}] ELSE Cur
                 s1 == StunHandler(s0, c, res)
             IN  Commit([s1 EXCEPT !.childReg = @ \ {c}])
    /\ stunLive' = IF hasState THEN stunLive \cup {c} ELSE stunLive
    /\ UNCHANGED <<startVars, worker, igdMsg, igdLive>>

\* The timer set in start() fires.
TimerFire ==
    /\ ~panicked
    /\ UNCHANGED histVars
    /\ pc = "returned"
    /\ timer = "armed"
    /\ Commit(CoreTimeout(Cur))
    /\ UNCHANGED <<startVars, worker, igdMsg, child>>

\* Core terminates the registered state from outside.
ExplicitTerminate ==
    /\ ~panicked
    /\ UNCHANGED histVars
    /\ pc = "returned"
    /\ hasState
    /\ Commit(terminate(Cur))
    /\ UNCHANGED <<startVars, worker, igdMsg, child>>

Next ==
    \/ StartBind
    \/ StartIgd
    \/ StartState
    \/ StartStun
    \/ StartRegister
    \/ \E i \in Interfaces : WorkerSend(i)
    \/ \E i \in Interfaces : WorkerFail(i)
    \/ \E i \in Interfaces : DeliverIgd(i)
    \/ \E c \in Peers : StunReport(c)
    \/ TimerFire
    \/ ExplicitTerminate

Spec == Init /\ [][Next]_vars

\* The event loop's timer fires once its time has passed.
FairSpec ==
    /\ Spec
    /\ WF_vars(TimerFire)

\* ================================================================ claims
Registered == hasContext /\ hasState
StartedOk == pc = "returned" /\ result = "Ok"
\* terminate() has run on a started coordinator.
Terminated == StartedOk /\ ~hasState
Outstanding == igd_children + Cardinality(stun_children)
FailedPeerKinds == {"query_bind", "to_tcp_stream", "connect", "start_failed"}

\* C1: once start() has returned Ok, finish is called exactly once whatever
\* the interleaving of gateway results, child results, the timer and an
\* explicit terminate: never twice, and once the coordinator has terminated
\* (or its timer has fired) it has been called.
C1_FinishExactlyOnce ==
    /\ finishCalls <= 1
    /\ Len(finishArgs) = finishCalls
    /\ Terminated => finishCalls = 1
    /\ (StartedOk /\ timer = "fired") => finishCalls = 1
    /\ ~StartedOk => finishCalls = 0

\* C1 witness: terminated by the last result, after a gateway result and a
\* child result were both handled, finish called once.
C1_Witness ==
    /\ Terminated
    /\ finishCalls = 1
    /\ timer = "cleared"
    /\ \E i \in Interfaces : worker[i] = "delivered"
    /\ \E c \in Peers : child[c] = "reported" /\ c \notin signalled
    /\ Len(finishArgs[1]) > Len(ifv4s) + 1

\* C2 (as claimed): a started coordinator with nothing outstanding has
\* terminated; it never sits registered waiting for the timer.
C2_TerminatesAtZeroOutstanding ==
    (StartedOk /\ igd_children = 0 /\ stun_children = {})
        => (~hasState /\ finishCalls = 1)

\* C3: bounded wait.  Once start() has returned Ok, finish is eventually
\* called, given only that the timer fires.
C3_BoundedWait == StartedOk ~> (finishCalls = 1)

\* C3 witness: finish was called by the timeout while a gateway thread had
\* reported nothing and a child was still outstanding.
C3_Witness ==
    /\ StartedOk
    /\ timer = "fired"
    /\ finishCalls = 1
    /\ \E i \in Interfaces : worker[i] = "spawned"
    /\ \E c \in Peers : child[c] = "running" /\ c \in signalled

\* C4: when the timer fires on a registered coordinator with children still
\* in stun_children, terminate runs once: finish is called once, every child
\* of stun_children that core still holds is told to terminate, and
\* stun_children is empty afterwards.
C4_TimeoutStopsChildren ==
    [][(timer = "armed" /\ timer' = "fired" /\ Registered /\ stun_children # {})
          => /\ finishCalls = 0
             /\ finishCalls' = 1
             /\ signalled' = signalled \cup (stun_children \cap childReg)
             /\ childReg' = childReg \ stun_children
             /\ stun_children' = {}
             /\ ~hasState']_vars

\* C4 witness: the timer fired with two children outstanding and both were
\* signalled.
C4_Witness ==
    /\ timer = "fired"
    /\ finishCalls = 1
    /\ Cardinality(signalled) = 2
    /\ stun_children = {}

\* C5: a gateway result or a child result delivered when the coordinator is
\* not registered changes nothing of it and calls finish no further time.
StaleDelivery ==
    /\ pc = "returned"
    /\ ~hasState
    /\ \/ \E i \in Interfaces : worker[i] = "sent" /\ worker'[i] = "delivered"
       \/ \E c \in Peers : child[c] = "running" /\ child'[c] = "reported"

C5_StaleCallbackNoOp ==
    [][StaleDelivery
          => /\ UNCHANGED <<igd_children, stun_children, mapped_addrs, socket,
                            finish, finishCalls, finishArgs, hasContext, hasState>>
             /\ ~panicked']_vars

\* C5 witness: after termination, a gateway result and the result of a
\* signalled child were both delivered; neither is in the list finish got.
C5_Witness ==
    /\ Terminated
    /\ finishCalls = 1
    /\ Len(finishArgs[1]) = Len(ifv4s)
    /\ \E i \in Interfaces : worker[i] = "delivered"
    /\ \E c \in Peers : child[c] = "reported" /\ c \in signalled

\* C6 (as claimed): start() returns Err only for the bind or the timer, and
\* then no gateway thread was spawned, no child was started, no timer is
\* set, the coordinator is not registered and finish is never called.
C6_ErrBeforeAnyChild ==
    result = "Err"
        => /\ err \in {"bind", "local_addr", "timer"}
           /\ \A i \in Interfaces : worker[i] = "none"
           /\ \A c \in Peers : child[c] \notin {"running", "reported"}
           /\ childReg = {}
           /\ timer # "armed"
           /\ ~hasContext /\ ~hasState
           /\ finishCalls = 0

\* C7 (as claimed): a peer whose query socket, connect or child start failed
\* is skipped: it is not in stun_children, the other peers are still
\* processed, and start() registers the coordinator and returns Ok.
C7_PeerFailureSkipped ==
    (pc = "returned" /\ \E p \in Peers : child[p] \in FailedPeerKinds)
        => /\ result = "Ok"
           /\ nextPeer > peer_listeners
           /\ \A p \in Peers : child[p] \in FailedPeerKinds => p \notin stun_children

\* C8: from the return of start() to termination, mapped_addrs holds exactly
\* one optimistic entry (interface ip, bound port, not reflected) per
\* configured interface, gateway or not; and so does the list finish gets,
\* also when every gateway and every child fails.
IsLocal(m) == m.via_reflection = FALSE /\ m.addr.ip \in Interfaces
LocalEntries(list) == {j \in 1..Len(list) : IsLocal(list[j])}
OnePerInterface(list) ==
    /\ Cardinality(LocalEntries(list)) = Len(ifv4s)
    /\ \A k \in 1..Len(ifv4s) :
          Cardinality({j \in 1..Len(list) :
              list[j] = MappedAddr(SocketAddr(ifv4s[k].ip, addr_port), FALSE)}) = 1

C8_OptimisticEntries ==
    /\ (StartedOk /\ hasState) => OnePerInterface(mapped_addrs)
    /\ \A n \in 1..Len(finishArgs) : OnePerInterface(finishArgs[n])

\* C8 witness: two interfaces, one with a gateway that failed, a child that
\* failed; the timer ended the wait and finish got the two local entries.
C8_Witness ==
    /\ Len(ifv4s) = 2
    /\ ~ifv4s[1].gateway
    /\ worker[2] = "failed"
    /\ child[1] = "reported" /\ 1 \notin signalled
    /\ timer = "fired"
    /\ finishCalls = 1
    /\ Len(finishArgs[1]) = 2

\* C9: whenever the coordinator is registered, socket and finish are both
\* present, so terminate never meets a None and no handler panics; the
\* socket is gone exactly once terminate has handed it to finish.
C9_SocketPresentWhileRegistered ==
    /\ (hasState \/ hasContext) => (socket /\ finish)
    /\ ~panicked
    /\ StartedOk => (socket <=> finishCalls = 0)
    /\ finishCalls = 1 => (~socket /\ ~finish)

\* C9 witness: still registered with socket and finish present after a
\* gateway result and a child result have been handled.
C9_Witness ==
    /\ Registered
    /\ socket /\ finish
    /\ \E i \in Interfaces : worker[i] = "delivered"
    /\ \E c \in Peers : child[c] = "reported"
    /\ Outstanding > 0

\* C10: the coordinator is registered exactly while it is active: start()
\* returning Ok leaves it registered and not terminated, only a started
\* coordinator is registered, terminate deregisters context and state, and
\* a terminated coordinator is never registered again.
C10_RegisteredWhileActive ==
    /\ [](hasContext <=> hasState)
    /\ [](hasState <=> (StartedOk /\ finishCalls = 0))
    /\ [][(result # "Ok" /\ result' = "Ok") => (Registered' /\ socket')]_vars
    /\ [][Terminated => (Terminated' /\ ~hasContext')]_vars

\* C10 witness: a terminated coordinator, deregistered, still receiving a
\* late gateway result.
C10_Witness ==
    /\ Terminated
    /\ ~hasContext
    /\ finishCalls = 1
    /\ timer = "cleared"
    /\ \E i \in Interfaces : worker[i] = "sent"

\* ------------------------------------------------- the list finish gets
Count(list, m) == Cardinality({j \in 1..Len(list) : list[j] = m})
IgdEntry(i) == MappedAddr(igdMsg[i], FALSE)
StunEntry(c) == MappedAddr(stunRes[c].addr, TRUE)
\* The children whose successful result was handled.
StunOk == {c \in stunLive : stunRes[c].ok}
ExpectedCount(m) ==
    Count(SeedAddrs, m)
        + Cardinality({i \in igdLive : IgdEntry(i) = m})
        + Cardinality({c \in StunOk : StunEntry(c) = m})
\* list is, as a multiset, the seeds plus the handled results.
ExactList(list) ==
    /\ Len(list) = Len(ifv4s) + Cardinality(igdLive) + Cardinality(StunOk)
    /\ \A j \in 1..Len(list) : Count(list, list[j]) = ExpectedCount(list[j])

\* C11: two interfaces, no gateway, one peer.  When the child's successful
\* result E is handled, finish is called in that very step, the timer still
\* set and now cancelled, with local1(false), local2(false), E(true) and
\* nothing else.
Scenario11 ==
    /\ StartedOk
    /\ Len(ifv4s) = 2
    /\ Gateways(ifv4s) = {}
    /\ peer_listeners = 1

C11_SingleReflectionScenario ==
    [][(Scenario11 /\ hasState /\ child[1] = "running" /\ child'[1] = "reported"
            /\ stunRes'[1].ok)
          => /\ timer = "armed"
             /\ timer' = "cleared"
             /\ finishCalls = 0
             /\ finishCalls' = 1
             /\ finishArgs' =
                   <<SeedAddrs \o <<MappedAddr(stunRes'[1].addr, TRUE)>>>>
             /\ Len(finishArgs'[1]) = 3]_vars

\* C11 witness: the scenario ended by the child's result, three entries.
C11_Witness ==
    /\ Scenario11
    /\ stunLive = {1}
    /\ stunRes[1].ok
    /\ finishCalls = 1
    /\ timer = "cleared"
    /\ Len(finishArgs[1]) = 3
    /\ finishArgs[1][3].via_reflection

\* C12 (as claimed): one interface whose gateway request failed, no peer.
\* The thread delivers nothing, igd_children stays 1, and finish is called
\* only when the timer fires, with local1(false) alone.
Scenario12 ==
    /\ StartedOk
    /\ Len(ifv4s) = 1
    /\ ifv4s[1].gateway
    /\ peer_listeners = 0
    /\ worker[1] = "failed"

C12_OnlyTimerTerminates ==
    Scenario12
        => /\ igd_children = 1
           /\ igdLive = {}
           /\ finishCalls = 1 => (timer = "fired" /\ finishArgs = <<SeedAddrs>>)
           /\ ~hasState => finishCalls = 1

\* C12 (amended): in that scenario the thread delivers nothing and
\* igd_children stays 1; the coordinator terminates only in a step where the
\* timer fires or where it is terminated explicitly, the timer firing does
\* terminate it, and finish gets local1(false) alone.
C12_TimerOrExplicitTerminates ==
    /\ [](Scenario12
            => /\ igd_children = 1
               /\ igdLive = {}
               /\ finishCalls = 1 => finishArgs = <<SeedAddrs>>
               /\ ~hasState => finishCalls = 1
               /\ timer = "fired" => finishCalls = 1)
    /\ [][(Scenario12 /\ hasState /\ ~hasState')
            => ((timer = "armed" /\ timer' = "fired") \/ ExplicitTerminate)]_vars

\* C12 witness: the scenario ended by the timer.
C12_Witness ==
    /\ Scenario12
    /\ timer = "fired"
    /\ finishCalls = 1
    /\ finishArgs = <<SeedAddrs>>

\* C13: once start() has returned, igd_children + |stun_children| never
\* grows: no step raises igd_children and none adds a child to
\* stun_children.
C13_OutstandingNonIncreasing ==
    [][pc = "returned"
          => /\ Outstanding' <= Outstanding
             /\ igd_children' <= igd_children
             /\ stun_children' \subseteq stun_children]_vars

\* C13 witness: still registered after a gateway result and a child result
\* brought the count down to one.
C13_Witness ==
    /\ hasState
    /\ igdLive # {}
    /\ stunLive # {}
    /\ Outstanding = 1

\* C14: order independence.  When every gateway thread and every started
\* child has had its result handled, in whatever order, the coordinator
\* terminated at the last of them (the timer cancelled, not fired) and
\* finish got the same multiset: the seeds plus every outcome.  A result,
\* gateway or reflection, terminates the coordinator only when it is the
\* last one.
StartedChildren == {c \in Peers : child[c] \in {"running", "reported"}}
AllArrived ==
    /\ StartedOk
    /\ igdLive = Gateways(ifv4s)
    /\ stunLive = StartedChildren
    /\ igdLive \cup stunLive # {}

C14_OrderIndependent ==
    /\ [](AllArrived
            => /\ finishCalls = 1
               /\ timer = "cleared"
               /\ ExactList(finishArgs[1])
               /\ Len(finishArgs[1]) = Len(ifv4s) + Cardinality(Gateways(ifv4s))
                                         + Cardinality(StunOk))
    /\ [][(hasState /\ ~hasState' /\ <<igdLive, stunLive>>' # <<igdLive, stunLive>>)
            => AllArrived']_vars

\* C14 witness: a gateway result first and a reflection result last, both
\* in the list finish got at the last of them.
C14_Witness ==
    /\ AllArrived
    /\ finishCalls = 1
    /\ Len(finishArgs[1]) = Len(ifv4s) + 2
    /\ ~finishArgs[1][Len(ifv4s) + 1].via_reflection
    /\ finishArgs[1][Len(ifv4s) + 2].via_reflection

\* C15: a gateway result handled by a registered coordinator finds
\* igd_children > 0, lowers it by exactly one, appends exactly one entry
\* (its address, not reflected) and terminates iff stun_children is empty
\* and igd_children is then zero; igd_children counts every thread that has
\* not had its result handled, so the decrement never underflows.
Unhandled == {i \in Interfaces : worker[i] \in {"spawned", "sent", "failed"}}

C15_HandleIgdResp ==
    /\ [](hasState => igd_children = Cardinality(Unhandled))
    /\ [](~panicked)
    /\ [][\A i \in Interfaces :
            (hasState /\ worker[i] = "sent" /\ worker'[i] = "delivered")
               => /\ igd_children > 0
                  /\ igd_children' = igd_children - 1
                  /\ IF stun_children = {} /\ igd_children = 1
                     THEN /\ ~hasState'
                          /\ finishCalls' = finishCalls + 1
                          /\ finishArgs' = <<Append(mapped_addrs, IgdEntry(i))>>
                     ELSE /\ hasState'
                          /\ finishCalls' = finishCalls
                          /\ mapped_addrs' = Append(mapped_addrs, IgdEntry(i))
                          /\ stun_children' = stun_children]_vars

\* C15 witness: the last gateway result was handled with a child still
\* outstanding: igd_children is zero and the coordinator is still registered.
C15_Witness ==
    /\ hasState
    /\ igdLive # {}
    /\ igd_children = 0
    /\ stun_children # {}
    /\ Len(mapped_addrs) = Len(ifv4s) + Cardinality(igdLive)

\* C16: a child result handled by a registered coordinator removes that
\* child from stun_children, appends exactly one reflected entry on success
\* and nothing on failure, leaves igd_children alone, and terminates iff
\* stun_children is then empty and igd_children is zero, on a failure too.
C16_HandleStunResp ==
    [][\A c \in Peers :
         (hasState /\ child[c] = "running" /\ child'[c] = "reported")
            => LET list == IF stunRes'[c].ok
                           THEN Append(mapped_addrs,
                                       MappedAddr(stunRes'[c].addr, TRUE))
                           ELSE mapped_addrs
               IN  /\ igd_children' = igd_children
                   /\ stunRes'[c] \in StunResults
                   /\ IF stun_children \ {c} = {} /\ igd_children = 0
                      THEN /\ ~hasState'
                           /\ finishCalls' = finishCalls + 1
                           /\ finishArgs' = <<list>>
                           /\ stun_children' = {}
                      ELSE /\ hasState'
                           /\ finishCalls' = finishCalls
                           /\ mapped_addrs' = list
                           /\ stun_children' = stun_children \ {c}]_vars

\* C16 witness: the only child failed as the last outstanding result and
\* the coordinator terminated on it, the timer unfired, with the seeds alone.
C16_Witness ==
    /\ StartedOk
    /\ Gateways(ifv4s) = {}
    /\ StartedChildren = {1}
    /\ stunLive = {1}
    /\ ~stunRes[1].ok
    /\ ~hasState
    /\ timer = "cleared"
    /\ finishArgs = <<SeedAddrs>>

\* C17: a child whose result has been handled is not in stun_children and
\* is never told to terminate: not by the termination its own result
\* triggers, not by a later one.
C17_ProcessedChildNeverSignalled ==
    \A c \in stunLive : c \notin stun_children /\ c \notin signalled

\* C17 witness: one child's result was handled, then the timer ended the
\* wait and only the other child was told to terminate.
C17_Witness ==
    /\ ~hasState
    /\ timer = "fired"
    /\ stunLive = {1}
    /\ signalled = {2}

\* C18: when finish is called the children have been signalled, the
\* coordinator is out of the registry, its timer is no longer set, the
\* socket is taken, stun_children and mapped_addrs are empty; no child is
\* signalled after that, and the timer never fires for a terminated
\* coordinator.
C18_TerminateOrder ==
    /\ [](\A n \in 1..Len(finishView) :
             LET v == finishView[n]
             IN  /\ ~v.hasContext
                 /\ ~v.hasState
                 /\ v.timer \in {"cleared", "fired"}
                 /\ ~v.socket
                 /\ v.stun_children = {}
                 /\ v.mapped_addrs = <<>>
                 /\ v.signalled = signalled)
    /\ [](Len(finishView) = finishCalls)
    /\ [][Terminated => (timer' = timer /\ timer # "armed")]_vars

\* C18 witness: an explicit terminate signalled an outstanding child,
\* cancelled the timer and then called finish; a late gateway result is
\* still under way.
C18_Witness ==
    /\ finishCalls = 1
    /\ finishView[1].timer = "cleared"
    /\ finishView[1].signalled # {}
    /\ ~finishView[1].hasState
    /\ \E i \in Interfaces : worker[i] = "sent"

\* C19: when start() returns Ok, igd_children is the number of interfaces
\* that carry a gateway, a thread was spawned for exactly those, and
\* stun_children is exactly the set of children GetExtAddr::start returned.
C19_CountsAtReturn ==
    [][(result # "Ok" /\ result' = "Ok")
          => /\ igd_children' = Cardinality(Gateways(ifv4s))
             /\ {i \in Interfaces : worker'[i] # "none"} = Gateways(ifv4s)
             /\ stun_children' = {c \in Peers : child'[c] = "running"}
             /\ childReg' = stun_children'
             /\ \A c \in Peers :
                   c <= peer_listeners => child'[c] \in {"running", "start_failed"}]_vars

\* C19 witness: two interfaces of which one has a gateway, two peers of
\* which the first could not be started.
C19_Witness ==
    /\ StartedOk
    /\ hasState
    /\ Len(ifv4s) = 2
    /\ Gateways(ifv4s) = {2}
    /\ igd_children = 1
    /\ child[1] = "start_failed"
    /\ stun_children = {2}
    /\ worker[2] = "spawned"

\* C20: the list finish gets is, as a multiset, the one seed per interface
\* plus one not-reflected entry per gateway result handled before
\* termination plus one reflected entry per successful child result handled
\* before termination: nothing handled is missing or doubled, and nothing
\* delivered after termination is in it.  Until then mapped_addrs is that
\* multiset so far.
C20_ExactList ==
    /\ \A n \in 1..Len(finishArgs) : ExactList(finishArgs[n])
    /\ (StartedOk /\ hasState) => ExactList(mapped_addrs)

\* C20 witness: a gateway result and a successful child result were
\* handled, the timer ended the wait, and a second gateway result was
\* delivered after that; finish got the seeds and the two handled results.
C20_Witness ==
    /\ finishCalls = 1
    /\ timer = "fired"
    /\ Cardinality(igdLive) = 1
    /\ Cardinality(StunOk) = 1
    /\ \E i \in Interfaces : worker[i] = "delivered" /\ i \notin igdLive
    /\ Len(finishArgs[1]) = Len(ifv4s) + 2

====
